---- MODULE Spec2Model ----
(***************************************************************************)
(* Modfwango-CPP: the socket registry (SocketManagement), the event bus    *)
(* (EventHandling / EventPreprocessor) and the module loader               *)
(* (ModuleManagement), as one state machine.                               *)
(*                                                                         *)
(* Strings that the code concatenates or parses (addresses, registry keys) *)
(* are sequences of one-character strings, so that formatting and parsing  *)
(* are computed and not assumed.                                           *)
(***************************************************************************)
EXTENDS Integers, Sequences, FiniteSets, TLC

VARIABLES
  sockets,   \* SocketManagement::sockets : key -> Socket [host, port, fd]
  openFds,   \* descriptors currently open for listening sockets
  closedTwice, \* whether a descriptor was closed that was not open
  conns,     \* descriptors of the open connections (ConnectionManagement)
  ready,     \* the listening sockets the select() of this tick flagged
  accepts,   \* the acceptConnections of this tick : key -> outcome of accept
  events,    \* EventHandling::events : name -> Event [owner, handler, pre]
  subs,      \* generic subscriptions : name -> list, in registration order
  modules,   \* ModuleManagement::modules : name -> ModuleInstance
  handles,   \* loaded-code handles (dlopen) not yet released (dlclose)
  objects,   \* module objects not yet destroyed
  nextObj,   \* number of module instances created so far
  held,      \* module objects a caller of getModuleByName still refers to
  found,     \* what the last load found of the file and the module in it
  thrown,    \* the exception the last loader call threw, "" for none
  log,       \* what the last receiveData / triggerEvent ran, in order
  last       \* the last operation called, its arguments and its result

vars == <<sockets, openFds, closedTwice, conns, ready, accepts, events, subs, modules,
         handles, objects, nextObj, held, found, thrown, log, last>>

sockVars  == <<sockets, openFds, closedTwice>>
reactVars == <<conns, ready, accepts>>
busVars   == <<events, subs, log>>
modVars   == <<modules, handles, objects, nextObj, held, found, thrown>>

\* The record kept in `last`: one shape for every operation.
Call(op, name, mod, addr, port, ret, why) ==
  [op |-> op, name |-> name, mod |-> mod, addr |-> addr, port |-> port,
   ret |-> ret, why |-> why]

NoCall == Call("none", "", "", <<>>, 0, FALSE, "")

(***************************************************************************)
(* Text: std::to_string, inet_pton(AF_INET), inet_ntop(AF_INET)            *)
(***************************************************************************)
Digits == <<"0", "1", "2", "3", "4", "5", "6", "7", "8", "9">>

IsDigit(c) == \E i \in 1..10 : Digits[i] = c

DigitVal(c) == (CHOOSE i \in 1..10 : Digits[i] = c) - 1

\* std::to_string(int) for a non-negative int
RECURSIVE to_string(_)
to_string(n) ==
  IF n < 10 THEN <<Digits[n + 1]>>
  ELSE to_string(n \div 10) \o <<Digits[(n % 10) + 1]>>

\* inet_pton(AF_INET, ...): the scan over the characters of src from position
\* i. tmp is the octets read so far (the last one is being read), saw is
\* saw_digit. The result is the four octets, or <<>> for "return 0".
RECURSIVE inet_pton_scan(_, _, _, _)
inet_pton_scan(src, i, tmp, saw) ==
  IF i > Len(src)
  THEN IF Len(tmp) < 4 \/ ~saw THEN <<>> ELSE tmp
  ELSE LET ch == src[i] IN
    IF IsDigit(ch)
    THEN IF ~saw
         THEN IF Len(tmp) + 1 > 4 THEN <<>>
              ELSE inet_pton_scan(src, i + 1, Append(tmp, DigitVal(ch)), TRUE)
         ELSE LET cur == tmp[Len(tmp)]
                  new == cur * 10 + DigitVal(ch)
              IN IF cur = 0 \/ new > 255 THEN <<>>
                 ELSE inet_pton_scan(src, i + 1,
                        [tmp EXCEPT ![Len(tmp)] = new], TRUE)
    ELSE IF ch = "." /\ saw
         THEN IF Len(tmp) = 4 THEN <<>>
              ELSE inet_pton_scan(src, i + 1, tmp, FALSE)
         ELSE <<>>

inet_pton(src) == inet_pton_scan(src, 1, <<>>, FALSE)

\* inet_ntop(AF_INET, ...): dotted decimal of four octets
inet_ntop(o) ==
  to_string(o[1]) \o <<".">> \o to_string(o[2]) \o <<".">> \o
  to_string(o[3]) \o <<".">> \o to_string(o[4])

(***************************************************************************)
(* The inputs the operations are called with                               *)
(***************************************************************************)
AddrA   == <<"1", ".", "1", ".", "1", ".", "1">>
AddrB   == <<"1", ".", "1", ".", "1", ".", "1", "2">>
AddrBad == <<"n", "o", "t", ".", "a", "n", ".", "i", "p">>
AddrShort == <<"1", ".", "1", ".", "1">>

Addrs == {AddrA, AddrB, AddrBad, AddrShort}
Ports == {3, 23}

\* What sin_addr can hold when inet_pton left it unwritten: an automatic
\* variable that was never initialised. The stack holds zeroes or what an
\* earlier inet_pton call wrote there.
UninitAddrs == {<<0, 0, 0, 0>>} \cup {inet_pton(a) : a \in {b \in Addrs : inet_pton(b) # <<>>}}

(***************************************************************************)
(* SocketManagement                                                        *)
(***************************************************************************)
isValidIP(addr) == inet_pton(addr) # <<>>

\* getValidIP: the set of strings the call can return. inet_pton's result is
\* not looked at; when it fails, sin_addr is formatted as it happens to be.
getValidIP(addr) ==
  IF inet_pton(addr) # <<>>
  THEN {inet_ntop(inet_pton(addr))}
  ELSE {inet_ntop(g) : g \in UninitAddrs}

\* The registry key of newSocket and destroySocket
SocketKey(ip, port) == ip \o to_string(port)

\* socket(2): the lowest descriptor that is not open
FreshFd(fds) == CHOOSE fd \in 3..(3 + Cardinality(fds)) :
  fd \notin fds /\ \A g \in 3..(fd - 1) : g \in fds

\* What `new Socket{ip, port}` can do: listen, throw (bind or listen error),
\* or yield a socket that is not valid.
CtorOutcomes == {"ok", "throw", "invalid"}

newSocketInsertAlways(socks, key, s) ==
  [k \in DOMAIN socks \cup {key} |-> IF k = key THEN s ELSE socks[k]]

\* newSocket, the registry after the count(key) test
newSocketInsert(socks, key, s) ==
  IF key \notin DOMAIN socks
  THEN [k \in DOMAIN socks \cup {key} |-> IF k = key THEN s ELSE socks[k]]
  ELSE socks

newSocketFdsLeak(fds, fd, kept) == fds \cup {fd}

\* newSocket, the open descriptors after the call: the new socket's
\* descriptor stays open only when the socket went into the registry;
\* `delete s` (or the unwinding of the constructor) closes it otherwise.
newSocketFds(fds, fd, kept) == IF kept THEN fds \cup {fd} ELSE fds

\* close(2) of the descriptors S, the open descriptors after it
Release(fds, S) == fds \ S

\* Some descriptor of S is not open: closing it closes it a second time
NotOpen(fds, S) == \E fd \in S : fd \notin fds

\* No tick of the reactor is in progress: nothing flagged, nothing accepted
NoTick ==
  /\ ready' = {}
  /\ accepts' = << >>
  /\ UNCHANGED conns

newSocket(addr, port) ==
  /\ IF ~isValidIP(addr)
     THEN /\ UNCHANGED sockVars
          /\ last' = Call("newSocket", "", "", addr, port, FALSE, "InvalidAddress")
     ELSE \E ip \in getValidIP(addr), ip2 \in getValidIP(addr), res \in CtorOutcomes :
          LET fd   == FreshFd(openFds \cup conns)
              s    == [host |-> ip, port |-> port, fd |-> fd]
              key  == SocketKey(ip2, port)
              kept == res = "ok" /\ key \notin DOMAIN sockets
          IN /\ sockets' = IF res = "ok" THEN newSocketInsert(sockets, key, s)
                           ELSE sockets
             /\ openFds' = newSocketFds(openFds, fd, kept)
             /\ UNCHANGED closedTwice
             /\ last' = Call("newSocket", "", "", addr, port, kept,
                             IF kept THEN "ok"
                             ELSE IF res = "ok" THEN "DuplicateKey"
                             ELSE "BindError")
  /\ NoTick
  /\ UNCHANGED <<busVars, modVars>>

destroySocketKeepsEntry(socks, key) == socks

\* destroySocket, the registry after erase(key)
destroySocketErase(socks, key) == [k \in DOMAIN socks \ {key} |-> socks[k]]

\* The descriptors of the entries of socks that are not in socks2: erasing
\* an entry drops the registry's shared_ptr<Socket>, the only one, and the
\* Socket goes with its FileDescriptor
Erased(socks, socks2) ==
  {socks[k].fd : k \in {e \in DOMAIN socks : e \notin DOMAIN socks2}}

destroySocket(addr, port) ==
  /\ \E ip \in getValidIP(addr) :
       LET key == SocketKey(ip, port) IN
       IF key \in DOMAIN sockets
       THEN /\ sockets' = destroySocketErase(sockets, key)
            /\ openFds' = Release(openFds, {sockets[key].fd})
            /\ closedTwice' = (closedTwice \/ NotOpen(openFds, {sockets[key].fd}))
            /\ last' = Call("destroySocket", "", "", addr, port, TRUE, "ok")
       ELSE /\ UNCHANGED sockVars
            /\ last' = Call("destroySocket", "", "", addr, port, FALSE, "NotFound")
  /\ NoTick
  /\ UNCHANGED <<busVars, modVars>>

closeAll ==
  /\ sockets' = << >>
  /\ openFds' = Release(openFds, Erased(sockets, << >>))
  /\ closedTwice' = (closedTwice \/ NotOpen(openFds, Erased(sockets, << >>)))
  /\ last' = Call("closeAll", "", "", <<>>, 0, TRUE, "ok")
  /\ NoTick
  /\ UNCHANGED <<busVars, modVars>>

\* The most connections open at once
MaxConns == 2

\* What Socket::acceptConnection can do: return a connection, or throw
\* (nothing pending, would block, any other accept error)
AcceptOutcomes == {"ok", "fail"}

\* FileDescriptorPool::get(): the descriptors select() watches, those of the
\* listening sockets and of the connections
Watched == openFds \cup conns

\* The descriptors that n accepts in a row return
RECURSIVE AcceptedFds(_, _)
AcceptedFds(fds, n) ==
  IF n = 0 THEN {}
  ELSE LET fd == FreshFd(fds) IN {fd} \cup AcceptedFds(fds \cup {fd}, n - 1)

\* stall: select() on the watched descriptors, without a timeout. It returns
\* when a descriptor is ready, and with nothing to watch it never returns.
\* The flags it leaves are in a local fd_set that stall discards.
stall ==
  /\ IF Watched = {}
     THEN /\ ready' = {}
          /\ last' = Call("stall", "", "", <<>>, 0, FALSE, "blocked")
     ELSE /\ \E r \in SUBSET DOMAIN sockets :
               /\ r # {} \/ conns # {}
               /\ ready' = r
          /\ last' = Call("stall", "", "", <<>>, 0, TRUE, "")
  /\ accepts' = << >>
  /\ UNCHANGED <<conns, sockVars, busVars, modVars>>

acceptTargetsReady(socks, rdy) == DOMAIN socks \cap rdy

\* acceptConnections, the sockets its loop calls acceptConnection on
acceptTargets(socks, rdy) == DOMAIN socks

newConnectionsAlways(cs, fds, out) ==
  cs \cup AcceptedFds(fds \cup cs, Cardinality(DOMAIN out))

\* acceptConnections, the connections after the loop: newConnection is
\* called with what acceptConnection returned, and not when it threw
newConnections(cs, fds, out) ==
  cs \cup AcceptedFds(fds \cup cs,
                      Cardinality({k \in DOMAIN out : out[k] = "ok"}))

acceptConnections ==
  /\ \E out \in [acceptTargets(sockets, ready) -> AcceptOutcomes] :
       /\ Cardinality(newConnections(conns, openFds, out)) <= MaxConns
       /\ conns' = newConnections(conns, openFds, out)
       /\ accepts' = out
  /\ last' = Call("acceptConnections", "", "", <<>>, 0, TRUE, "")
  /\ UNCHANGED <<ready, sockVars, busVars, modVars>>

\* A connection is closed and removed (its read returned nothing, or failed)
closeConnection(fd) ==
  /\ fd \in conns
  /\ conns' = conns \ {fd}
  /\ ready' = {}
  /\ accepts' = << >>
  /\ last' = Call("closeConnection", "", "", <<>>, fd, TRUE, "")
  /\ UNCHANGED <<sockVars, busVars, modVars>>

(***************************************************************************)
(* EventHandling (the event bus) and EventPreprocessor                     *)
(***************************************************************************)
Names      == {"cmd", "aux"}      \* command event names
SubNames   == {"tick"}            \* generic event names
Owners     == {"", "m1", "m2"}    \* owner tags; "" is the core
Handlers   == {"h1", "h2"}        \* command handlers
Prios      == {0, 1}
PreCallbacks == {"accept", "veto", "null"}   \* "null" is a nullptr callback
SubCallbacks == {"f", "g", "h"}

\* Raw data as received: lexemes, " " being the delimiter
DataInputs == {<<"cmd", " ", "x">>, <<"aux">>, <<"nop", " ", "x">>, << >>}

\* The most preprocessors and subscriptions the bus holds at once, where
\* every owner tag registers (MaxOwned) and where one owner registers with
\* every priority and callback (MaxOrdered)
MaxOwned == 2
MaxOrdered == 3

NoLog == [pre |-> << >>, handler |-> 0, subs |-> << >>]

\* The leading token of raw data: what precedes the first delimiter
LeadingToken(data) == IF data = << >> \/ data[1] = " " THEN "" ELSE data[1]

\* What a preprocessor's callback answers when it is called
Callback(cb) == cb = "accept"

EventPreprocessor_callNullPasses(p, name) ==
  IF p.cb # "null" THEN Callback(p.cb) ELSE TRUE

\* EventPreprocessor::call
EventPreprocessor_call(p, name) ==
  IF p.cb # "null" THEN Callback(p.cb) ELSE FALSE

\* Entry i of list runs before entry j: lower priority first, equal
\* priorities in registration order (the list is in registration order)
Before(list, i, j) ==
  \/ list[i].prio < list[j].prio
  \/ list[i].prio = list[j].prio /\ i < j

\* Insertion of index i into the indices `sorted`, behind every entry that
\* does not come after it
RECURSIVE InsertByPriority(_, _, _)
InsertByPriority(list, sorted, i) ==
  IF sorted = << >> THEN <<i>>
  ELSE IF list[i].prio < list[Head(sorted)].prio
       THEN <<i>> \o sorted
       ELSE <<Head(sorted)>> \o InsertByPriority(list, Tail(sorted), i)

RECURSIVE InsertByPriorityUnstable(_, _, _)
InsertByPriorityUnstable(list, sorted, i) ==
  IF sorted = << >> THEN <<i>>
  ELSE IF list[i].prio <= list[Head(sorted)].prio
       THEN <<i>> \o sorted
       ELSE <<Head(sorted)>> \o InsertByPriorityUnstable(list, Tail(sorted), i)

RECURSIVE RunOrderUpTo(_, _)
RunOrderUpTo(list, n) ==
  IF n = 0 THEN << >>
  ELSE InsertByPriority(list, RunOrderUpTo(list, n - 1), n)

RECURSIVE RunOrderUpToUnstable(_, _)
RunOrderUpToUnstable(list, n) ==
  IF n = 0 THEN << >>
  ELSE InsertByPriorityUnstable(list, RunOrderUpToUnstable(list, n - 1), n)

RunOrderUnstable(list) == RunOrderUpToUnstable(list, Len(list))

\* The indices of list in the order its entries run
RunOrder(list) == RunOrderUpTo(list, Len(list))

\* The preprocessors that run, from position k of order: up to and including
\* the first whose call answers false
RECURSIVE RunPreprocessors(_, _, _, _)
RunPreprocessors(chain, order, k, name) ==
  IF k > Len(order) THEN << >>
  ELSE IF EventPreprocessor_call(chain[order[k]], name)
       THEN <<order[k]>> \o RunPreprocessors(chain, order, k + 1, name)
       ELSE <<order[k]>>

\* The entries of list whose owner is not mod, in their order
RECURSIVE WithoutOwner(_, _)
WithoutOwner(list, mod) ==
  IF list = << >> THEN << >>
  ELSE IF Head(list).owner = mod THEN WithoutOwner(Tail(list), mod)
       ELSE <<Head(list)>> \o WithoutOwner(Tail(list), mod)

Entries ==
  LET RECURSIVE Sum(_)
      Sum(S) == IF S = {} THEN 0
                ELSE LET n == CHOOSE x \in S : TRUE
                     IN Len(events[n].pre) + Sum(S \ {n})
      RECURSIVE SumSubs(_)
      SumSubs(S) == IF S = {} THEN 0
                    ELSE LET n == CHOOSE x \in S : TRUE
                         IN Len(subs[n]) + SumSubs(S \ {n})
  IN Sum(DOMAIN events) + SumSubs(DOMAIN subs)

createEventOverwrite(evs, name, parentModule, callback) ==
  [n \in DOMAIN evs \cup {name} |->
     IF n = name
     THEN [owner |-> parentModule, handler |-> callback, pre |-> << >>]
     ELSE evs[n]]

\* createEvent, the event table after the call
createEventTable(evs, name, parentModule, callback) ==
  IF name \notin DOMAIN evs
  THEN [n \in DOMAIN evs \cup {name} |->
          IF n = name
          THEN [owner |-> parentModule, handler |-> callback, pre |-> << >>]
          ELSE evs[n]]
  ELSE evs

createEvent(name, parentModule, callback) ==
  /\ events' = createEventTable(events, name, parentModule, callback)
  /\ last' = IF name \notin DOMAIN events
             THEN Call("createEvent", name, parentModule, <<>>, 0, TRUE, "ok")
             ELSE Call("createEvent", name, parentModule, <<>>, 0, FALSE,
                       "AlreadyExists")
  /\ log' = NoLog
  /\ UNCHANGED <<subs, sockVars, reactVars, modVars>>

destroyEventKeepsChain(evs, name) ==
  [n \in DOMAIN evs |-> IF n = name THEN [evs[n] EXCEPT !.handler = ""] ELSE evs[n]]

\* destroyEvent, the event table after the call: the event goes with its
\* handler and its preprocessors
destroyEventTable(evs, name) == [n \in DOMAIN evs \ {name} |-> evs[n]]

destroyEvent(name) ==
  /\ events' = destroyEventTable(events, name)
  /\ last' = IF name \in DOMAIN events
             THEN Call("destroyEvent", name, "", <<>>, 0, TRUE, "ok")
             ELSE Call("destroyEvent", name, "", <<>>, 0, FALSE, "NotFound")
  /\ log' = NoLog
  /\ UNCHANGED <<subs, sockVars, reactVars, modVars>>

receiveData(data) ==
  LET name == LeadingToken(data) IN
  /\ IF name \in DOMAIN events
     THEN LET chain == events[name].pre
              ran   == RunPreprocessors(chain, RunOrder(chain), 1, name)
              pass  == \A i \in 1..Len(ran) :
                         EventPreprocessor_call(chain[ran[i]], name)
          IN log' = [pre |-> ran, handler |-> IF pass THEN 1 ELSE 0,
                     subs |-> << >>]
     ELSE log' = NoLog
  /\ last' = Call("receiveData", name, "", <<>>, 0, FALSE, "")
  /\ UNCHANGED <<events, subs, sockVars, reactVars, modVars>>

registerPreprocessorCreates(evs, name, p) ==
  [n \in DOMAIN evs \cup {name} |->
     IF n # name THEN evs[n]
     ELSE IF name \in DOMAIN evs THEN [evs[n] EXCEPT !.pre = Append(@, p)]
     ELSE [owner |-> "", handler |-> "", pre |-> <<p>>]]

\* registerPreprocessorForEvent, the event table after the call: the
\* preprocessor goes to the end of the chain of the event, if there is one
registerPreprocessorTable(evs, name, p) ==
  IF name \in DOMAIN evs THEN [evs EXCEPT ![name].pre = Append(@, p)]
  ELSE evs

registerPreprocessorForEvent(name, parentModule, callback, priority) ==
  /\ events' = registerPreprocessorTable(events, name,
                  [owner |-> parentModule, prio |-> priority, cb |-> callback])
  /\ last' = IF name \in DOMAIN events
             THEN Call("registerPreprocessorForEvent", name, parentModule,
                       <<>>, 0, TRUE, "ok")
             ELSE Call("registerPreprocessorForEvent", name, parentModule,
                       <<>>, 0, FALSE, "NotFound")
  /\ log' = NoLog
  /\ UNCHANGED <<subs, sockVars, reactVars, modVars>>

unregisterPreprocessorForEvent(name, parentModule) ==
  /\ IF /\ name \in DOMAIN events
        /\ \E i \in 1..Len(events[name].pre) :
             events[name].pre[i].owner = parentModule
     THEN /\ events' = [events EXCEPT ![name].pre = WithoutOwner(@, parentModule)]
          /\ last' = Call("unregisterPreprocessorForEvent", name, parentModule,
                          <<>>, 0, TRUE, "ok")
     ELSE /\ UNCHANGED events
          /\ last' = Call("unregisterPreprocessorForEvent", name, parentModule,
                          <<>>, 0, FALSE, "NotFound")
  /\ log' = NoLog
  /\ UNCHANGED <<subs, sockVars, reactVars, modVars>>

\* (name, parentModule, callback) is subscribed in sbs
Subscribed(sbs, name, parentModule, callback) ==
  \E i \in 1..Len(sbs[name]) :
    sbs[name][i].owner = parentModule /\ sbs[name][i].cb = callback

\* registerForEvent, the subscriptions after the call
registerForEventTable(sbs, name, parentModule, callback, priority) ==
  IF Subscribed(sbs, name, parentModule, callback) THEN sbs
  ELSE [sbs EXCEPT ![name] =
          Append(@, [owner |-> parentModule, prio |-> priority,
                     cb |-> callback])]

registerForEvent(name, parentModule, callback, priority) ==
  /\ subs' = registerForEventTable(subs, name, parentModule, callback, priority)
  /\ last' = IF Subscribed(subs, name, parentModule, callback)
             THEN Call("registerForEvent", name, parentModule, <<>>, 0,
                       FALSE, "AlreadyRegistered")
             ELSE Call("registerForEvent", name, parentModule, <<>>, 0,
                       TRUE, "ok")
  /\ log' = NoLog
  /\ UNCHANGED <<events, sockVars, reactVars, modVars>>

unregisterForEvent(name, parentModule) ==
  /\ IF \E i \in 1..Len(subs[name]) : subs[name][i].owner = parentModule
     THEN /\ subs' = [subs EXCEPT ![name] = WithoutOwner(@, parentModule)]
          /\ last' = Call("unregisterForEvent", name, parentModule, <<>>, 0,
                          TRUE, "ok")
     ELSE /\ UNCHANGED subs
          /\ last' = Call("unregisterForEvent", name, parentModule, <<>>, 0,
                          FALSE, "NotFound")
  /\ log' = NoLog
  /\ UNCHANGED <<events, sockVars, reactVars, modVars>>

\* The value triggerEvent returns: its return type is bool, so "how many
\* ran" comes back as whether any ran
triggerEventResult(count) == count > 0

triggerEvent(name) ==
  LET ran == RunOrder(subs[name]) IN
  /\ log' = [pre |-> << >>, handler |-> 0, subs |-> ran]
  /\ last' = Call("triggerEvent", name, "", <<>>, 0,
                  triggerEventResult(Len(ran)), "")
  /\ UNCHANGED <<events, subs, sockVars, reactVars, modVars>>

unregisterEventsNone(evs, parentModule) == evs

\* unregisterEvents: the bus without the CommandEvents of parentModule; an
\* event goes with its handler and its whole preprocessor chain
unregisterEvents(evs, parentModule) ==
  [n \in {e \in DOMAIN evs : evs[e].owner # parentModule} |-> evs[n]]

unregisterModule(parentModule) ==
  /\ events' = [n \in DOMAIN unregisterEvents(events, parentModule) |->
                  [events[n] EXCEPT !.pre = WithoutOwner(@, parentModule)]]
  /\ subs' = [n \in DOMAIN subs |-> WithoutOwner(subs[n], parentModule)]
  /\ last' = Call("unregisterModule", "", parentModule, <<>>, 0,
                  events' # events \/ subs' # subs, "")
  /\ log' = NoLog
  /\ UNCHANGED <<sockVars, reactVars, modVars>>

\* The bus operations over the given inputs
BusStep(Ns, SNs, Os, Ps, PCs, SCs, Ds, cap) ==
  \/ \E n \in Ns, o \in Os, h \in Handlers : createEvent(n, o, h)
  \/ \E n \in Ns : destroyEvent(n)
  \/ \E d \in Ds : receiveData(d)
  \/ \E n \in Ns, o \in Os, c \in PCs, p \in Ps :
       Entries < cap /\ registerPreprocessorForEvent(n, o, c, p)
  \/ \E n \in Ns, o \in Os : unregisterPreprocessorForEvent(n, o)
  \/ \E n \in SNs, o \in Os, c \in SCs, p \in Ps :
       Entries < cap /\ registerForEvent(n, o, c, p)
  \/ \E n \in SNs, o \in Os : unregisterForEvent(n, o)
  \/ \E n \in SNs : triggerEvent(n)
  \/ \E o \in Os \ {""} : unregisterModule(o)

(***************************************************************************)
(* ModuleManagement (the module loader)                                    *)
(***************************************************************************)
\* Names a module is asked for by: path components under modules/src
LoadNames == {<<"m1">>, <<"m2">>, <<"sub", "m1">>}

\* Keys of the table of loaded modules
ModuleNames == {"m1", "m2"}

\* What loading finds: no such file, dlopen fails, the _load entry point is
\* missing, _load returns nullptr, the module reports another name, the
\* module refuses in isInstantiated(), or all is well
LoadEnvs ==
  {"no_file", "dlopen_fails", "no_entry", "null_module", "wrong_name",
   "refuses", "ok"}

\* The most module instances created in one run
MaxLoads == 3

\* What the module's own code does when the loader runs it (its constructor
\* inside _load, and isInstantiated): it subscribes to "tick" under the name
\* it reports, or it registers nothing
ModuleCode == {"registers", "quiet"}

\* The name the module in the file reports (getName)
ReportedName(base, env) == IF env = "wrong_name" THEN "mx" ELSE base

\* getBasename of the path loadModule builds from name: the last component,
\* without the ".so" the path was given
getBasename(name) == name[Len(name)]

getModuleByNameNull(mods, name) == 0

\* getModuleByName: the module object, or 0 for nullptr
getModuleByName(mods, name) ==
  IF name \in DOMAIN mods THEN mods[name].module ELSE 0

\* The loader's state as a value, with the result of the call that made it:
\* ret is the bool returned, why names the branch that threw ("" for none)
Loader(mods, hs, objs, n, ret, why) ==
  [modules |-> mods, handles |-> hs, objects |-> objs, nextObj |-> n,
   ret |-> ret, why |-> why]

\* unloadModule: erasing the entry destroys the ModuleInstance, and with it
\* the two shared_ptr it holds. The code handle has no other owner and is
\* released (dlclose); the module object is destroyed unless a caller of
\* getModuleByName still holds it.
unloadModuleFrom(L, name) ==
  IF name \in DOMAIN L.modules
  THEN Loader([k \in DOMAIN L.modules \ {name} |-> L.modules[k]],
              L.handles \ {L.modules[name].handle},
              L.objects \ ({L.modules[name].module} \ held),
              L.nextObj, TRUE, "")
  ELSE Loader(L.modules, L.handles, L.objects, L.nextObj, FALSE, "")

\* loadModule
loadModuleInto(L, name, env) ==
  LET base == getBasename(name)
      id   == L.nextObj + 1
      same == Loader(L.modules, L.handles, L.objects, L.nextObj, FALSE, "")
  IN
  IF env = "no_file" THEN [same EXCEPT !.why = "no_file"]
  ELSE IF getModuleByName(L.modules, base) # 0 THEN same
  ELSE IF env = "dlopen_fails" THEN [same EXCEPT !.why = "dlopen"]
  ELSE IF env = "no_entry" THEN [same EXCEPT !.why = "no_entry"]
  ELSE IF env = "null_module" THEN [same EXCEPT !.why = "bad_module"]
  ELSE IF env = "wrong_name"
       THEN Loader(L.modules, L.handles, L.objects, id, FALSE, "bad_module")
  ELSE LET added ==
             Loader([k \in DOMAIN L.modules \cup {base} |->
                       IF k = base THEN [module |-> id, handle |-> id]
                       ELSE L.modules[k]],
                    L.handles \cup {id}, L.objects \cup {id}, id, TRUE, "")
       IN IF env = "ok" THEN added
          ELSE [unloadModuleFrom(added, base) EXCEPT
                  !.ret = FALSE, !.why = "refused"]

ThrownOneKindEach(why) ==
  IF why \in {"no_file", "dlopen", "no_entry"} THEN "runtime_error"
  ELSE IF why = "bad_module" THEN "logic_error"
  ELSE IF why = "refused" THEN "domain_error"
  ELSE ""

\* The exception a branch of loadModule throws
Thrown(why) ==
  IF why \in {"no_file", "dlopen", "no_entry"} THEN "runtime_error"
  ELSE IF why \in {"bad_module", "refused"} THEN "logic_error"
  ELSE ""

Current == Loader(modules, handles, objects, nextObj, FALSE, "")

Becomes(L) ==
  /\ modules' = L.modules
  /\ handles' = L.handles
  /\ objects' = L.objects
  /\ nextObj' = L.nextObj
  /\ thrown' = Thrown(L.why)

\* The bus after the module's code ran, if it ran: _load was called and
\* constructed a module (L counts one instance more)
ModuleRan(L, base, env, code, sbs) ==
  IF L.nextObj > nextObj /\ code = "registers"
  THEN registerForEventTable(sbs, "tick", ReportedName(base, env), "f", 0)
  ELSE sbs

loadModule(name, env, code) ==
  LET L    == loadModuleInto(Current, name, env)
      base == getBasename(name)
  IN
  /\ nextObj < MaxLoads
  /\ Becomes(L)
  /\ found' = env
  /\ subs' = ModuleRan(L, base, env, code, subs)
  /\ last' = Call("loadModule", base, ReportedName(base, env), name, 0,
                  L.ret, L.why)
  /\ UNCHANGED <<events, log, held, sockVars, reactVars>>

unloadModule(name) ==
  LET L == unloadModuleFrom(Current, name) IN
  /\ Becomes(L)
  /\ found' = ""
  /\ last' = Call("unloadModule", name, "", <<>>, 0, L.ret, L.why)
  /\ UNCHANGED <<busVars, held, sockVars, reactVars>>

reloadModuleRestores(L, name, env) ==
  LET U == unloadModuleFrom(L, name)
      R == loadModuleInto(U, <<name>>, env)
  IN IF ~U.ret THEN U
     ELSE IF R.ret THEN R
     ELSE [L EXCEPT !.nextObj = R.nextObj, !.ret = FALSE, !.why = R.why]

\* reloadModule, the loader after the call
reloadModuleInto(L, name, env) ==
  LET U == unloadModuleFrom(L, name) IN
  IF U.ret THEN loadModuleInto(U, <<name>>, env) ELSE U

reloadModule(name, env, code) ==
  LET L == reloadModuleInto(Current, name, env) IN
  /\ nextObj < MaxLoads
  /\ Becomes(L)
  /\ found' = IF name \in DOMAIN modules THEN env ELSE ""
  /\ subs' = ModuleRan(L, name, env, code, subs)
  /\ last' = Call("reloadModule", name, ReportedName(name, env), <<>>, 0,
                  L.ret, L.why)
  /\ UNCHANGED <<events, log, held, sockVars, reactVars>>

\* A caller keeps the shared_ptr<Module> that getModuleByName(name) returned
keepModule(name) ==
  /\ getModuleByName(modules, name) # 0
  /\ held' = held \cup {getModuleByName(modules, name)}
  /\ last' = Call("getModuleByName", name, "", <<>>, 0, TRUE, "")
  /\ UNCHANGED <<modules, handles, objects, nextObj, found, thrown, busVars,
                 sockVars, reactVars>>

\* The caller lets go of it; the last shared_ptr<Module> to go destroys the
\* module object
releaseModule(id) ==
  /\ id \in held
  /\ held' = held \ {id}
  /\ objects' = IF \E k \in DOMAIN modules : modules[k].module = id
                THEN objects ELSE objects \ {id}
  /\ last' = Call("releaseModule", "", "", <<>>, id, TRUE, "")
  /\ UNCHANGED <<modules, handles, nextObj, found, thrown, busVars,
                 sockVars, reactVars>>

Init ==
  /\ sockets = << >>
  /\ openFds = {}
  /\ closedTwice = FALSE
  /\ conns = {}
  /\ ready = {}
  /\ accepts = << >>
  /\ events = << >>
  /\ subs = [n \in SubNames |-> << >>]
  /\ modules = << >>
  /\ handles = {}
  /\ objects = {}
  /\ nextObj = 0
  /\ held = {}
  /\ found = ""
  /\ thrown = ""
  /\ log = NoLog
  /\ last = NoCall

NextSock ==
  \/ \E a \in Addrs, p \in Ports : newSocket(a, p)
  \/ \E a \in Addrs, p \in Ports : destroySocket(a, p)
  \/ closeAll

SpecSock == Init /\ [][NextSock]_vars

\* The addresses the reactor's listening sockets are made with
ReactAddrs == {AddrA}

\* The reactor's tick over the registry. A stall that never returns is the
\* end of the run.
NextReact ==
  /\ last.why # "blocked"
  /\ \/ \E a \in ReactAddrs, p \in Ports : newSocket(a, p)
     \/ \E a \in ReactAddrs, p \in Ports : destroySocket(a, p)
     \/ closeAll
     \/ stall
     \/ acceptConnections
     \/ \E fd \in conns : closeConnection(fd)

SpecReact == Init /\ [][NextReact]_vars

\* The bus with every owner tag, one priority and callbacks that all accept
NextBus == BusStep(Names, SubNames, Owners, {0}, {"accept"}, {"f"}, DataInputs,
                   MaxOwned)

SpecBus == Init /\ [][NextBus]_vars

\* The bus with one event and one owner, and every priority and callback
NextOrder ==
  BusStep({"cmd"}, SubNames, {"m1"}, Prios, PreCallbacks, SubCallbacks,
          {<<"cmd", " ", "x">>, << >>}, MaxOrdered)

SpecOrder == Init /\ [][NextOrder]_vars

\* The loader, and the bus as the loaded modules use it
NextMod ==
  \/ \E n \in LoadNames, e \in LoadEnvs : loadModule(n, e, "quiet")
  \/ \E n \in ModuleNames : unloadModule(n)
  \/ \E n \in ModuleNames, e \in LoadEnvs : reloadModule(n, e, "quiet")
  \/ BusStep({"cmd"}, SubNames, DOMAIN modules, {0}, {"accept"}, {"f"},
             {<<"cmd", " ", "x">>}, MaxOwned)

SpecMod == Init /\ [][NextMod]_vars

\* The loader alone, with modules whose own code registers on the bus while
\* they are loaded, and callers that keep what getModuleByName returned
NextLoad ==
  \/ \E n \in LoadNames, e \in LoadEnvs, c \in ModuleCode : loadModule(n, e, c)
  \/ \E n \in ModuleNames : unloadModule(n)
  \/ \E n \in ModuleNames, e \in LoadEnvs, c \in ModuleCode :
       reloadModule(n, e, c)
  \/ \E n \in ModuleNames : keepModule(n)
  \/ \E id \in 1..MaxLoads : releaseModule(id)

SpecLoad == Init /\ [][NextLoad]_vars

\* Everything together. The socket registry shares no state with the bus and
\* the loader, so the properties are checked per subsystem (SpecSock,
\* SpecReact, SpecBus, SpecOrder, SpecMod, SpecLoad).
Next == NextSock \/ NextReact \/ NextBus \/ NextOrder \/ NextMod \/ NextLoad

Spec == Init /\ [][Next]_vars

(***************************************************************************)
(* Socket registry: properties                                             *)
(***************************************************************************)
\* The normalized form of a well-formed address
Normalized(addr) == inet_ntop(inet_pton(addr))

\* A socket for the pair (addr, port) is in the registry socks
PairRegistered(socks, addr, port) ==
  /\ inet_pton(addr) # <<>>
  /\ \E k \in DOMAIN socks :
       socks[k].host = Normalized(addr) /\ socks[k].port = port

\* Every entry of socks except those of the pair (host, port) is in socks2
\* unchanged
OthersKept(socks, socks2, host, port) ==
  \A k \in DOMAIN socks :
    (socks[k].host # host \/ socks[k].port # port)
      => (k \in DOMAIN socks2 /\ socks2[k] = socks[k])

\* No partial entry: every registered socket holds an open descriptor of its
\* own, and no other listening descriptor is open.
RegistryWhole(socks, fds) ==
  /\ \A k \in DOMAIN socks : socks[k].fd \in fds
  /\ \A k1, k2 \in DOMAIN socks : socks[k1].fd = socks[k2].fd => k1 = k2
  /\ fds = {socks[k].fd : k \in DOMAIN socks}

\* C7 (as claimed): the key identifies exactly one (normalized address, port)
\* pair: at most one socket per pair, different pairs have different keys,
\* newSocket reports a duplicate only when the same pair is registered, and
\* destroySocket of a well-formed address removes only that pair's socket.
C7_KeyIdentifiesPair ==
  [][ /\ \A k1, k2 \in DOMAIN sockets' :
           (sockets'[k1].host = sockets'[k2].host /\
            sockets'[k1].port = sockets'[k2].port) => k1 = k2
      /\ (last'.op = "newSocket" /\ last'.why = "DuplicateKey")
           => PairRegistered(sockets, last'.addr, last'.port)
      /\ (last'.op = "destroySocket" /\ inet_pton(last'.addr) # <<>>)
           => OthersKept(sockets, sockets', Normalized(last'.addr), last'.port)
    ]_vars

\* C8: newSocket(a, p) while a socket for (a, p) is registered returns false
\* and the registry, the entry of (a, p) included, is what it was: same
\* socket, same descriptor.
C8_DuplicateNeverReplaces ==
  [][ (last'.op = "newSocket" /\ PairRegistered(sockets, last'.addr, last'.port))
        => /\ last'.ret = FALSE
           /\ last'.why \in {"DuplicateKey", "BindError"}
           /\ \A k \in DOMAIN sockets :
                k \in DOMAIN sockets' /\ sockets'[k] = sockets[k]
    ]_vars

C8_Witness ==
  /\ last.op = "newSocket"
  /\ last.why = "DuplicateKey"
  /\ PairRegistered(sockets, last.addr, last.port)

\* C9: a newSocket call that fails leaves the registry and the open listening
\* descriptors as they were, and the registry never holds a partial entry; a
\* malformed address fails as InvalidAddress.
C9_FailedNewSocketNoEffect ==
  [][ /\ RegistryWhole(sockets', openFds')
      /\ (last'.op = "newSocket" /\ last'.ret = FALSE)
           => (sockets' = sockets /\ openFds' = openFds)
      /\ (last'.op = "newSocket" /\ inet_pton(last'.addr) = <<>>)
           => (last'.ret = FALSE /\ last'.why = "InvalidAddress")
    ]_vars

C9_Witness ==
  /\ last.op = "newSocket"
  /\ last.why = "InvalidAddress"
  /\ sockets # << >>

\* C10 (as claimed): destroySocket with an address that is not a well-formed
\* IPv4 literal returns false and leaves the registry unchanged.
C10_MalformedDestroyRejected ==
  [][ (last'.op = "destroySocket" /\ inet_pton(last'.addr) = <<>>)
        => (last'.ret = FALSE /\ sockets' = sockets /\ openFds' = openFds)
    ]_vars

(***************************************************************************)
(* Event bus: properties                                                   *)
(***************************************************************************)
\* The preprocessor chain of name in the table evs; none when name has no
\* CommandEvent
ChainOf(evs, name) == IF name \in DOMAIN evs THEN evs[name].pre ELSE << >>

\* Nothing in the table evs and the subscriptions sbs is owned by mod
OwnsNothing(evs, sbs, mod) ==
  /\ \A n \in DOMAIN evs :
       /\ evs[n].owner # mod
       /\ \A i \in 1..Len(evs[n].pre) : evs[n].pre[i].owner # mod
  /\ \A n \in DOMAIN sbs : \A i \in 1..Len(sbs[n]) : sbs[n][i].owner # mod

\* The entries of list2 are those of list that mod does not own, in the
\* order they have in list
OthersInOrder(list, list2, mod) ==
  \E f \in [1..Len(list2) -> 1..Len(list)] :
    /\ \A i, j \in 1..Len(list2) : i < j => f[i] < f[j]
    /\ \A i \in 1..Len(list2) : list2[i] = list[f[i]]
    /\ \A k \in 1..Len(list) :
         (list[k].owner # mod) <=> (\E i \in 1..Len(list2) : f[i] = k)

Vetoes(p) == p.cb # "accept"

\* The indices ran are distinct indices of list, in running order
RanInOrder(list, ran) ==
  /\ \A i \in 1..Len(ran) : ran[i] \in 1..Len(list)
  /\ \A i, j \in 1..Len(ran) : i < j => Before(list, ran[i], ran[j])

\* C3: when the leading token names a CommandEvent, its preprocessors run in
\* ascending priority, ties in registration order, each at most once; the
\* first that answers false is the last to run and the handler does not run;
\* the handler runs once exactly when every preprocessor answered true.
C3_PreprocessorVeto ==
  (last.op = "receiveData" /\ last.name \in DOMAIN events) =>
    LET chain == events[last.name].pre
        ran   == log.pre
    IN /\ RanInOrder(chain, ran)
       /\ \A i \in 1..Len(ran) : i < Len(ran) => ~Vetoes(chain[ran[i]])
       /\ \A k \in 1..Len(chain) :
            (\A i \in 1..Len(ran) : ran[i] # k) =>
              /\ \A i \in 1..Len(ran) : Before(chain, ran[i], k)
              /\ ran # << >> /\ Vetoes(chain[ran[Len(ran)]])
       /\ log.handler \in {0, 1}
       /\ log.handler = 1 <=> \A k \in 1..Len(chain) : ~Vetoes(chain[k])

C3_Witness ==
  /\ last.op = "receiveData"
  /\ last.name \in DOMAIN events
  /\ Len(events[last.name].pre) = 3
  /\ Len(log.pre) = 2
  /\ events[last.name].pre[log.pre[1]].prio = events[last.name].pre[log.pre[2]].prio
  /\ log.handler = 0

\* A bool as a number
AsNumber(b) == IF b THEN 1 ELSE 0

\* Every subscription of name ran once, in ascending priority, ties in
\* registration order
RanAllInOrder(list, ran) ==
  /\ RanInOrder(list, ran)
  /\ \A k \in 1..Len(list) : \E i \in 1..Len(ran) : ran[i] = k
  /\ Len(ran) = Len(list)

C5_DuplicateCreateNoMutation ==
  [][ (last'.op = "createEvent" /\ last'.name \in DOMAIN events) =>
        /\ last'.ret = FALSE
        /\ last'.why = "AlreadyExists"
        /\ events' = events
        /\ subs' = subs
    ]_vars

C5_Witness ==
  /\ last.op = "createEvent"
  /\ last.ret = FALSE
  /\ last.name \in DOMAIN events
  /\ events[last.name].owner # last.mod
  /\ events[last.name].pre # << >>

\* C6: after destroyEvent(n) succeeds n has no CommandEvent, and stays
\* without one until createEvent(n); receiveData with leading token n runs
\* no preprocessor and no handler meanwhile; the event createEvent makes has
\* an empty preprocessor chain.
C6_DestroyedEventGone ==
  [][ /\ (last'.op = "destroyEvent" /\ last'.ret) =>
           last'.name \notin DOMAIN events'
      /\ \A n \in Names :
           (n \notin DOMAIN events /\ n \in DOMAIN events') =>
             /\ last'.op = "createEvent" /\ last'.name = n
             /\ events'[n].pre = << >>
      /\ (last'.op = "receiveData" /\ last'.name \notin DOMAIN events) =>
           log' = NoLog
    ]_vars

C6_Witness ==
  /\ last.op = "receiveData"
  /\ last.name \in Names
  /\ last.name \notin DOMAIN events
  /\ log = NoLog
  /\ \E n \in DOMAIN events : events[n].pre # << >>

(***************************************************************************)
(* Module loader: properties                                               *)
(***************************************************************************)
\* The last call unloaded the module last.name: unloadModule or reloadModule
\* found it loaded, or loadModule unloaded it again when it refused
Unloaded ==
  \/ last.op = "unloadModule" /\ last.ret
  \/ last.op = "reloadModule" /\ (last.ret \/ last.why # "")
  \/ last.op = "loadModule" /\ last.why = "refused"

\* C2 (as claimed): when a loaded module is unloaded, the bus is told to
\* unregister it before its code handle is released, so that after the
\* unload the bus holds no CommandEvent, preprocessor or subscription that
\* the module owns.
C2_UnloadUnregisters == Unloaded => OwnsNothing(events, subs, last.name)

\* A load that failed at the entry point, at the name the module reports or
\* at isInstantiated
FailedLoad ==
  last.op = "loadModule" /\ last.why \in {"no_entry", "bad_module", "refused"}

\* C11 (as claimed): a load that fails for a missing entry point, a name
\* that differs or a refusing isInstantiated returns no success and leaves
\* no residue: the module is not in the table, no code handle stays open
\* beyond those of the table, and the bus, which held nothing of that module
\* before the call, holds nothing of it after.
C11_FailedLoadNoResidue ==
  [][ (FailedLoad' /\ OwnsNothing(events, subs, last'.mod))
        => /\ last'.ret = FALSE
           /\ getModuleByName(modules', last'.name) = 0
           /\ handles' = {modules'[k].handle : k \in DOMAIN modules'}
           /\ OwnsNothing(events', subs', last'.mod)
    ]_vars

\* The code handle of module object id: loadModule puts the two in one
\* ModuleInstance, under one number here
HandleOf(id) == id

\* C12 (as claimed): the code handle lives exactly as long as the module
\* object: no module object is alive whose code handle is released, and no
\* code handle is open whose module object is gone.
C12_HandleLivesWithObject ==
  /\ \A id \in objects : HandleOf(id) \in handles
  /\ \A h \in handles : \E id \in objects : HandleOf(id) = h

\* The failures of the plugin itself: no entry point, another name than the
\* one asked for, a refusing isInstantiated
PluginFailures == {"no_entry", "wrong_name", "refuses"}

\* C13 (as claimed): the three plugin failures are thrown as three pairwise
\* distinct kinds: two loads in a row that fail for different ones of the
\* three throw different kinds.
C13_ThreeDistinctKinds ==
  [][ ( /\ last.op = "loadModule" /\ last'.op = "loadModule"
        /\ thrown # "" /\ thrown' # ""
        /\ found \in PluginFailures /\ found' \in PluginFailures
        /\ found # found' )
        => thrown # thrown'
    ]_vars

\* C13 (amended): a load of a name that is not loaded throws runtime_error
\* when the entry point is missing and logic_error both when the module
\* reports another name and when it refuses in isInstantiated: the kind
\* tells the first from the other two, and the other two apart only by
\* their message.
C13_TwoErrorKinds ==
  [][ (last'.op = "loadModule" /\ last'.name \notin DOMAIN modules)
        => /\ (found' = "no_entry" => thrown' = "runtime_error")
           /\ (found' \in {"wrong_name", "refuses"} => thrown' = "logic_error")
           /\ (found' \in PluginFailures => last'.ret = FALSE)
    ]_vars

C13_Witness ==
  /\ last.op = "loadModule"
  /\ found = "refuses"
  /\ thrown = "logic_error"
  /\ last.name \notin DOMAIN modules

\* One code handle per entry of the table, and no other handle open
OneInstancePerName ==
  /\ \A k1, k2 \in DOMAIN modules :
       modules[k1].handle = modules[k2].handle => k1 = k2
  /\ handles = {modules[k].handle : k \in DOMAIN modules}

\* loadModule of a loaded name changed nothing
LoadedNameUntouched ==
  /\ last'.ret = FALSE
  /\ modules' = modules /\ handles' = handles /\ objects' = objects
  /\ nextObj' = nextObj /\ subs' = subs /\ events' = events

\* C19 (as claimed): loadModule of a name that is loaded returns false,
\* throws nothing and changes nothing, and the table holds one instance and
\* one code handle per name.
C19_LoadOfLoadedIsNoOp ==
  [][ /\ OneInstancePerName'
      /\ (last'.op = "loadModule" /\ last'.name \in DOMAIN modules)
           => (LoadedNameUntouched /\ thrown' = "")
    ]_vars

\* C19 (amended): loadModule of a name that is loaded changes nothing and
\* returns false without throwing, provided its file is still found; when
\* the file is gone it throws runtime_error, before it looks at the table,
\* and still changes nothing. The table holds one instance and one code
\* handle per name.
C19_LoadOfLoadedChangesNothing ==
  [][ /\ OneInstancePerName'
      /\ (last'.op = "loadModule" /\ last'.name \in DOMAIN modules)
           => /\ LoadedNameUntouched
              /\ thrown' = IF found' = "no_file" THEN "runtime_error" ELSE ""
    ]_vars

C19_Witness ==
  /\ last.op = "loadModule"
  /\ last.name \in DOMAIN modules
  /\ found = "ok"
  /\ last.ret = FALSE
  /\ thrown = ""

\* C20: reloadModule(n) of a name that is not loaded returns false, loads
\* nothing and changes nothing. Of a loaded name it removes the old instance
\* first, and then either returns true with n loaded as a new instance, or
\* the load failed and n is not loaded: the old instance and its code
\* handle are in no case there after the call.
C20_ReloadNeverRestores ==
  [][ last'.op = "reloadModule" =>
        IF last'.name \notin DOMAIN modules
        THEN /\ last'.ret = FALSE /\ thrown' = ""
             /\ modules' = modules /\ handles' = handles
             /\ objects' = objects /\ nextObj' = nextObj /\ subs' = subs
        ELSE LET old == modules[last'.name] IN
             /\ old.handle \notin handles'
             /\ \A k \in DOMAIN modules' : modules'[k] # old
             /\ \/ /\ last'.ret = TRUE /\ thrown' = ""
                   /\ last'.name \in DOMAIN modules'
                   /\ modules'[last'.name].module \notin objects
                \/ /\ last'.ret = FALSE /\ thrown' # ""
                   /\ last'.name \notin DOMAIN modules'
    ]_vars

C20_Witness ==
  /\ last.op = "reloadModule"
  /\ last.ret = FALSE
  /\ thrown = "logic_error"
  /\ last.name \notin DOMAIN modules
  /\ modules # << >>

\* The preprocessors of the bus, each as <<event name, place in the chain>>
Preprocessors(evs) ==
  UNION {{n} \X (1..Len(evs[n].pre)) : n \in DOMAIN evs}

\* name is a CommandEvent of the table: createEvent made it, with a handler
\* and an owner
IsCommandEvent(evs, name) ==
  /\ name \in DOMAIN evs
  /\ evs[name].handler \in Handlers
  /\ evs[name].owner \in Owners

\* C18: every preprocessor of the bus is attached to a CommandEvent that
\* exists. registerPreprocessorForEvent on a name without CommandEvent
\* returns NotFound and adds nothing; when an event is destroyed no
\* preprocessor of it is left, and none of it is there when the name is
\* created again.
C18_PreprocessorsAttached ==
  [][ /\ \A p \in Preprocessors(events') : IsCommandEvent(events', p[1])
      /\ (last'.op = "registerPreprocessorForEvent" /\
          ~IsCommandEvent(events, last'.name))
           => /\ last'.ret = FALSE /\ last'.why = "NotFound"
              /\ events' = events /\ subs' = subs
      /\ (last'.op = "destroyEvent" /\ last'.ret)
           => \A p \in Preprocessors(events') : p[1] # last'.name
      /\ (last'.op = "createEvent" /\ last'.ret)
           => \A p \in Preprocessors(events') : p[1] # last'.name
    ]_vars

C18_Witness ==
  /\ last.op = "registerPreprocessorForEvent"
  /\ last.why = "NotFound"
  /\ last.name \notin DOMAIN events
  /\ Preprocessors(events) # {}

(***************************************************************************)
(* Reactor: properties                                                     *)
(***************************************************************************)
\* C14 (as claimed): in a tick accept is attempted on exactly the listening
\* sockets that the select() of the tick flagged ready.
C14_AcceptOnlyOnReady ==
  [][ last'.op = "acceptConnections"
        => DOMAIN accepts' = DOMAIN sockets \cap ready
    ]_vars

\* C14 (amended): in a tick accept is attempted on every registered
\* listening socket, flagged ready by the select() of the tick or not.
C14_AcceptOnEverySocket ==
  [][ last'.op = "acceptConnections" => DOMAIN accepts' = DOMAIN sockets ]_vars

C14_Witness ==
  /\ last.op = "acceptConnections"
  /\ \E k \in DOMAIN accepts : k \notin ready
  /\ \E k \in DOMAIN accepts : k \in ready

\* The sockets on which the accept of this tick had the outcome o
AcceptsWith(acc, o) == {k \in DOMAIN acc : acc[k] = o}

\* C15: a failed accept is swallowed. acceptConnections returns normally,
\* leaves the socket registry and its descriptors as they were, adds one
\* connection per accept that succeeded and none for one that failed, keeps
\* the connections there were, and has attempted accept on every listening
\* socket, those after a failed one included.
C15_FailedAcceptSwallowed ==
  [][ last'.op = "acceptConnections"
        => /\ last'.ret = TRUE /\ last'.why = ""
           /\ sockets' = sockets /\ openFds' = openFds
           /\ conns \subseteq conns'
           /\ Cardinality(conns' \ conns) =
                Cardinality(AcceptsWith(accepts', "ok"))
           /\ AcceptsWith(accepts', "ok") \cup AcceptsWith(accepts', "fail") =
                DOMAIN sockets
    ]_vars

C15_Witness ==
  /\ last.op = "acceptConnections"
  /\ AcceptsWith(accepts, "fail") # {}
  /\ AcceptsWith(accepts, "ok") # {}
  /\ Cardinality(conns) = 1

C17_ReleasedOnceAtErase ==
  [][ /\ openFds \ openFds' = Erased(sockets, sockets')
      /\ closedTwice' = FALSE
      /\ RegistryWhole(sockets', openFds')
      /\ openFds' \cap conns' = {}
      /\ (last'.op = "destroySocket" /\ last'.ret)
           => (Erased(sockets, sockets') # {} /\
               Erased(sockets, sockets') \cap openFds' = {})
      /\ last'.op = "closeAll" => (sockets' = << >> /\ openFds' = {})
    ]_vars

C17_Witness ==
  /\ last.op = "destroySocket"
  /\ last.ret
  /\ sockets # << >>
  /\ conns # {}
  /\ \E fd \in conns : \A k \in DOMAIN sockets : fd < sockets[k].fd

====
